---- MODULE Spec2Model ----
(***************************************************************************)
(* Crop Yield Predictor (src/app.py): a Streamlit script that is re-run    *)
(* from top to bottom for every user interaction.  One run of main() is a  *)
(* request; the model file on disk and the st.cache_resource table of      *)
(* load_model survive from one request to the next.                        *)
(*                                                                         *)
(* Abstractions: floats are integers of the same range; a file is named    *)
(* by its content; an error message is the sequence of its parts.          *)
(***************************************************************************)
EXTENDS Integers, Sequences, FiniteSets

VARIABLES
    files,        \* path -> content of the file there ("absent" if none)
    cache,        \* st.cache_resource table of load_model: path -> handle
    pc,           \* position of the current run of main()
    uploaded,     \* content of the uploaded file of this request, or "none"
    model_path,   \* main: model_path
    model,        \* main: model
    attempts,     \* deserialization formats tried in this request, in order
    loadError,    \* message of the RuntimeError load_model raised, or << >>
    formRendered, \* build_input_form ran in this request
    submitted,    \* main: submitted
    input_df,     \* main: input_df
    collected,    \* the record as build_input_form returned it (history)
    df_for_model, \* main: df_for_model
    fallbackRan,  \* the except branch of encode_if_needed ran
    predictCalls, \* calls of model.predict in this request: argument, outcome
    display,      \* what this request has put on the page
    returned      \* path -> first handle load_model returned for it (history)

vars == <<files, cache, pc, uploaded, model_path, model, attempts, loadError,
          formRendered, submitted, input_df, collected, df_for_model,
          fallbackRan, predictCalls, display, returned>>

Range(s) == {s[i] : i \in DOMAIN s}

-----------------------------------------------------------------------------
(* Files and model handles *)

default_model_path == "pipeline3_revised.pkl"
temp_path == "_uploaded_model.tmp"
Paths == {default_model_path, temp_path}

\* Contents a model file can have: a pickled pipeline that takes the raw
\* record, a pickled estimator that takes numbers only, the same estimator in
\* joblib's compressed format (not a pickle stream), a pickled object that has
\* no predict, and bytes that are neither format.
FileContents == {"pkl_pipeline", "pkl_numeric", "jbl_numeric", "pkl_object", "corrupt"}

NoModel == [kind |-> "none", src |-> "none"]

Handle(content) ==
    [kind |-> CASE content = "pkl_pipeline" -> "pipeline"
                [] content = "pkl_numeric" -> "numeric"
                [] content = "jbl_numeric" -> "numeric"
                [] OTHER -> "object",
     src |-> content]

\* open(model_path, "rb") and pickle.load(f)
PickleLoad(content) ==
    IF content = "absent"
    THEN [ok |-> FALSE, value |-> NoModel, err |-> "No such file or directory"]
    ELSE IF content \in {"pkl_pipeline", "pkl_numeric", "pkl_object"}
    THEN [ok |-> TRUE, value |-> Handle(content), err |-> ""]
    ELSE [ok |-> FALSE, value |-> NoModel, err |-> "invalid load key"]

\* joblib.load(model_path): reads joblib's format and plain pickles
JoblibLoad(content) ==
    IF content = "absent"
    THEN [ok |-> FALSE, value |-> NoModel, err |-> "joblib: file not found"]
    ELSE IF content = "corrupt"
    THEN [ok |-> FALSE, value |-> NoModel, err |-> "joblib: unknown format"]
    ELSE [ok |-> TRUE, value |-> Handle(content), err |-> ""]

\* Mutant of load_model: the RuntimeError carries the last error only.
load_model_last_error(content) ==
    LET a == PickleLoad(content)
        b == JoblibLoad(content)
    IN  IF a.ok
        THEN [ok |-> TRUE, value |-> a.value, tried |-> <<"pickle">>, err |-> << >>]
        ELSE IF b.ok
        THEN [ok |-> TRUE, value |-> b.value, tried |-> <<"pickle", "joblib">>,
              err |-> << >>]
        ELSE [ok |-> FALSE, value |-> NoModel, tried |-> <<"pickle", "joblib">>,
              err |-> <<"Unable to load model. ", b.err>>]

\* The body of load_model, run on a cache miss.
load_model(content) ==
    LET a == PickleLoad(content)
        b == JoblibLoad(content)
    IN  IF a.ok
        THEN [ok |-> TRUE, value |-> a.value, tried |-> <<"pickle">>, err |-> << >>]
        ELSE IF b.ok
        THEN [ok |-> TRUE, value |-> b.value, tried |-> <<"pickle", "joblib">>,
              err |-> << >>]
        ELSE [ok |-> FALSE, value |-> NoModel, tried |-> <<"pickle", "joblib">>,
              err |-> <<"Unable to load model. Tried pickle and joblib. ",
                        "Pickle error: ", a.err, ". Joblib error: ", b.err>>]

\* Mutant of CacheLookup: load_model without the cache decorator.
CacheLookupNever(table, path) == NoModel

\* @st.cache_resource: the table is keyed by the argument, the path.
CacheLookup(table, path) == table[path]

-----------------------------------------------------------------------------
(* The single-row table of build_input_form *)

Columns == {"Region", "Soil_Type", "Crop", "Rainfall_mm", "Temperature_Celsius",
            "Fertilizer_Used", "Irrigation_Used", "Weather_Condition",
            "Days_to_Harvest"}
CategoricalColumns == {"Region", "Soil_Type", "Crop", "Weather_Condition"}
FlagColumns == {"Fertilizer_Used", "Irrigation_Used"}

RegionOptions == <<"North", "East", "South", "West">>
SoilTypeOptions == <<"Clay", "Sandy", "Loam", "Silt", "Peaty", "Chalky">>
CropOptions == <<"Wheat", "Rice", "Maize", "Barley", "Soybean", "Cotton">>
WeatherConditionOptions == <<"Sunny", "Rainy", "Cloudy">>
YesNoOptions == <<"Yes", "No">>

RainfallMin == 0
RainfallMax == 5000
RainfallDefault == 800
TemperatureMin == -20
TemperatureMax == 60
TemperatureDefault == 25
DaysMin == 30
DaysMax == 400
DaysDefault == 120

\* st.selectbox: the option at the chosen position; nothing else can be chosen.
Selectbox(options, index) == options[index]

\* Mutant of NumberInput: no min_value and max_value.
NumberInputUnchecked(min_value, max_value, value, typed) == typed

\* st.number_input: a typed value outside [min_value, max_value] is not
\* committed, the widget keeps its value.
NumberInput(min_value, max_value, value, typed) ==
    IF min_value <= typed /\ typed <= max_value THEN typed ELSE value

\* What the user does with the form: a position in each select box, a number
\* typed into each number input, and whether the submit button is clicked.
Typed(min_value, max_value) == {min_value - 1, min_value, max_value, max_value + 1}

AllChoices ==
    [region : DOMAIN RegionOptions, soil_type : DOMAIN SoilTypeOptions,
     crop : DOMAIN CropOptions, weather_condition : DOMAIN WeatherConditionOptions,
     rainfall_mm : Typed(RainfallMin, RainfallMax),
     temperature_c : Typed(TemperatureMin, TemperatureMax),
     days_to_harvest : Typed(DaysMin, DaysMax),
     fertilizer_used : DOMAIN YesNoOptions, irrigation_used : DOMAIN YesNoOptions,
     click : BOOLEAN]

\* A few of them, for the runs that are about the loader and the adapter.
SampleChoices ==
    [region : {1, 3}, soil_type : {3}, crop : {1, 2}, weather_condition : {1},
     rainfall_mm : {RainfallMax + 1}, temperature_c : {TemperatureMin},
     days_to_harvest : {DaysMax},
     fertilizer_used : DOMAIN YesNoOptions, irrigation_used : {1},
     click : BOOLEAN]

NoFrame == [dtype |-> [c \in Columns |-> "none"], col |-> [c \in Columns |-> << >>]]

\* build_input_form: (submitted, pd.DataFrame([data]))
build_input_form(w) ==
    LET region == Selectbox(RegionOptions, w.region)
        soil_type == Selectbox(SoilTypeOptions, w.soil_type)
        crop == Selectbox(CropOptions, w.crop)
        weather_condition == Selectbox(WeatherConditionOptions, w.weather_condition)
        rainfall_mm == NumberInput(RainfallMin, RainfallMax, RainfallDefault,
                                   w.rainfall_mm)
        temperature_c == NumberInput(TemperatureMin, TemperatureMax,
                                     TemperatureDefault, w.temperature_c)
        days_to_harvest == NumberInput(DaysMin, DaysMax, DaysDefault,
                                       w.days_to_harvest)
        fertilizer_used == Selectbox(YesNoOptions, w.fertilizer_used)
        irrigation_used == Selectbox(YesNoOptions, w.irrigation_used)
    IN  [submitted |-> w.click,
         df |-> [dtype |-> [c \in Columns |->
                     IF c \in CategoricalColumns THEN "object"
                     ELSE IF c \in FlagColumns THEN "bool"
                     ELSE IF c = "Days_to_Harvest" THEN "int64" ELSE "float64"],
                 col |-> [c \in Columns |->
                     CASE c = "Region" -> <<region>>
                       [] c = "Soil_Type" -> <<soil_type>>
                       [] c = "Crop" -> <<crop>>
                       [] c = "Rainfall_mm" -> <<rainfall_mm>>
                       [] c = "Temperature_Celsius" -> <<temperature_c>>
                       [] c = "Fertilizer_Used" -> <<fertilizer_used = "Yes">>
                       [] c = "Irrigation_Used" -> <<irrigation_used = "Yes">>
                       [] c = "Weather_Condition" -> <<weather_condition>>
                       [] OTHER -> <<days_to_harvest>>]]]

-----------------------------------------------------------------------------
(* model.predict and the fallback encoding *)

\* Python's order on the strings a column can hold.
LexOrder ==
    <<"Barley", "Chalky", "Clay", "Cloudy", "Cotton", "East", "Loam", "Maize",
      "North", "Peaty", "Rainy", "Rice", "Sandy", "Silt", "South", "Soybean",
      "Sunny", "West", "Wheat">>
LexRank(s) == CHOOSE i \in DOMAIN LexOrder : LexOrder[i] = s
StrLess(a, b) == LexRank(a) < LexRank(b)

\* The number an estimator reads in a cell.
CellNumber(df, c, row) ==
    LET v == df.col[c][row]
    IN  IF df.dtype[c] = "object" THEN LexRank(v)
        ELSE IF df.dtype[c] = "bool" THEN (IF v THEN 1 ELSE 0)
        ELSE v

\* The predictor is an opaque artifact; three behaviours stand for it.  Its
\* value depends on every cell and on which file it was loaded from.
YieldOf(handle, df, row) ==
    LexRank(IF handle.src = "pkl_pipeline" THEN "Barley"
            ELSE IF handle.src = "pkl_numeric" THEN "Chalky" ELSE "Clay") * 100000
    + CellNumber(df, "Region", row) * 7 + CellNumber(df, "Soil_Type", row) * 11
    + CellNumber(df, "Crop", row) * 13 + CellNumber(df, "Weather_Condition", row) * 17
    + CellNumber(df, "Fertilizer_Used", row) * 3
    + CellNumber(df, "Irrigation_Used", row) * 5
    + CellNumber(df, "Rainfall_mm", row) + CellNumber(df, "Temperature_Celsius", row)
    + CellNumber(df, "Days_to_Harvest", row)

\* model.predict(df): the predictions of the rows, or the exception raised.
Predict(handle, df) ==
    LET values == [row \in DOMAIN df.col["Region"] |-> YieldOf(handle, df, row)]
    IN  IF handle.kind = "pipeline"
        THEN IF \A c \in CategoricalColumns : df.dtype[c] = "object"
             THEN [ok |-> TRUE, value |-> values, err |-> ""]
             ELSE [ok |-> FALSE, value |-> << >>, err |-> "unknown categories"]
        ELSE IF handle.kind = "numeric"
        THEN IF \E c \in Columns : df.dtype[c] = "object"
             THEN [ok |-> FALSE, value |-> << >>,
                   err |-> "could not convert string to float"]
             ELSE [ok |-> TRUE, value |-> values, err |-> ""]
        ELSE [ok |-> FALSE, value |-> << >>, err |-> "object has no attribute predict"]

\* Mutant of CatCodes: codes of a vocabulary fitted on every category.
CatCodesOfVocabulary(column) == [i \in DOMAIN column |-> LexRank(column[i]) - 1]

\* Series.astype("category").cat.codes: the position of each value among the
\* sorted distinct values of the column.
CatCodes(column) ==
    [i \in DOMAIN column |->
        Cardinality({v \in Range(column) : StrLess(v, column[i])})]

\* Series.astype(int)
AsTypeInt(column, dtype) ==
    [i \in DOMAIN column |->
        IF dtype = "bool" THEN (IF column[i] THEN 1 ELSE 0) ELSE column[i]]

\* The except branch of encode_if_needed, on a copy of df.
Encoded(df) ==
    LET codes == [dtype |-> [c \in Columns |->
                      IF df.dtype[c] = "object" THEN "int8" ELSE df.dtype[c]],
                  col |-> [c \in Columns |->
                      IF df.dtype[c] = "object" THEN CatCodes(df.col[c])
                      ELSE df.col[c]]]
    IN  [dtype |-> [c \in Columns |->
                      IF c \in FlagColumns THEN "int64" ELSE codes.dtype[c]],
         col |-> [c \in Columns |->
                      IF c \in FlagColumns THEN AsTypeInt(codes.col[c], codes.dtype[c])
                      ELSE codes.col[c]]]

\* Mutant of encode_if_needed: the encoding is applied without trying first.
encode_always(handle, df) ==
    [ret |-> Encoded(df), arg |-> df, fallback |-> TRUE,
     calls |-> <<[arg |-> df, ok |-> Predict(handle, df).ok]>>]

\* Mutant of encode_if_needed: the except branch returns df.
encode_if_needed_returns_raw(handle, df) ==
    LET direct == Predict(handle, df)
    IN  [ret |-> df, arg |-> df, fallback |-> ~direct.ok,
         calls |-> <<[arg |-> df, ok |-> direct.ok]>>]

\* Mutant of encode_if_needed: the except branch encodes df itself, not a copy.
encode_if_needed_in_place(handle, df) ==
    LET direct == Predict(handle, df)
    IN  IF direct.ok
        THEN [ret |-> df, arg |-> df, fallback |-> FALSE,
              calls |-> <<[arg |-> df, ok |-> TRUE]>>]
        ELSE [ret |-> Encoded(df), arg |-> Encoded(df), fallback |-> TRUE,
              calls |-> <<[arg |-> df, ok |-> FALSE]>>]

\* encode_if_needed(model, df): ret is the table returned, arg is df as the
\* call leaves it (both branches work on df.copy()).
encode_if_needed(handle, df) ==
    LET direct == Predict(handle, df)
    IN  IF direct.ok
        THEN [ret |-> df, arg |-> df, fallback |-> FALSE,
              calls |-> <<[arg |-> df, ok |-> TRUE]>>]
        ELSE [ret |-> Encoded(df), arg |-> df, fallback |-> TRUE,
              calls |-> <<[arg |-> df, ok |-> FALSE]>>]

-----------------------------------------------------------------------------
(* main(), one run per request *)

NoUpload == "none"
Uploads == FileContents \cup {NoUpload}

Shown(kind, text, value) == [kind |-> kind, text |-> text, value |-> value]

Init ==
    /\ files \in {[p \in Paths |-> IF p = default_model_path THEN c ELSE "absent"] :
                    c \in FileContents \cup {"absent"}}
    /\ cache = [p \in Paths |-> NoModel]
    /\ returned = [p \in Paths |-> NoModel]
    /\ pc = "start"
    /\ uploaded = NoUpload
    /\ model_path = default_model_path
    /\ model = NoModel
    /\ attempts = << >>
    /\ loadError = << >>
    /\ formRendered = FALSE
    /\ submitted = FALSE
    /\ input_df = NoFrame
    /\ collected = NoFrame
    /\ df_for_model = NoFrame
    /\ fallbackRan = FALSE
    /\ predictCalls = << >>
    /\ display = << >>

\* A new run of the script: st.file_uploader, and the upload written to the
\* temporary path.
ReceiveUpload(u) ==
    /\ pc \in {"start", "done"}
    /\ uploaded' = u
    /\ files' = IF u # NoUpload THEN [files EXCEPT ![temp_path] = u] ELSE files
    /\ model_path' = IF u # NoUpload THEN temp_path ELSE default_model_path
    /\ pc' = "exists"
    /\ model' = NoModel
    /\ attempts' = << >>
    /\ loadError' = << >>
    /\ formRendered' = FALSE
    /\ submitted' = FALSE
    /\ input_df' = NoFrame
    /\ collected' = NoFrame
    /\ df_for_model' = NoFrame
    /\ fallbackRan' = FALSE
    /\ predictCalls' = << >>
    /\ display' = << >>
    /\ UNCHANGED <<cache, returned>>

\* Mutant of CheckModelExists: st.error without st.stop.
CheckModelExistsNoStop ==
    /\ pc = "exists"
    /\ display' = IF files[model_path] = "absent"
                  THEN Append(display, Shown("error", <<"No model found">>, 0))
                  ELSE display
    /\ pc' = "load"
    /\ UNCHANGED <<files, cache, uploaded, model_path, model, attempts, loadError,
                   formRendered, submitted, input_df, collected, df_for_model,
                   fallbackRan, predictCalls, returned>>

\* if not os.path.exists(model_path): st.error(...); st.stop()
CheckModelExists ==
    /\ pc = "exists"
    /\ IF files[model_path] = "absent"
       THEN /\ display' = Append(display, Shown("error", <<"No model found">>, 0))
            /\ pc' = "done"
       ELSE /\ pc' = "load"
            /\ UNCHANGED display
    /\ UNCHANGED <<files, cache, uploaded, model_path, model, attempts, loadError,
                   formRendered, submitted, input_df, collected, df_for_model,
                   fallbackRan, predictCalls, returned>>

\* model = load_model(model_path): the cached handle of the path if there is
\* one, else the body runs; its RuntimeError is not caught by main, the run
\* ends showing it.
LoadModel ==
    /\ pc = "load"
    /\ LET hit == CacheLookup(cache, model_path)
           r == load_model(files[model_path])
       IN  IF hit # NoModel
           THEN /\ model' = hit
                /\ pc' = "form"
                /\ returned' = IF returned[model_path] = NoModel
                               THEN [returned EXCEPT ![model_path] = hit]
                               ELSE returned
                /\ UNCHANGED <<cache, attempts, loadError, display>>
           ELSE /\ attempts' = r.tried
                /\ model' = r.value
                /\ loadError' = r.err
                /\ IF r.ok
                   THEN /\ cache' = [cache EXCEPT ![model_path] = r.value]
                        /\ returned' = IF returned[model_path] = NoModel
                                       THEN [returned EXCEPT ![model_path] = r.value]
                                       ELSE returned
                        /\ pc' = "form"
                        /\ UNCHANGED display
                   ELSE /\ display' = Append(display, Shown("exception", r.err, 0))
                        /\ pc' = "done"
                        /\ UNCHANGED <<cache, returned>>
    /\ UNCHANGED <<files, uploaded, model_path, formRendered, submitted, input_df,
                   collected, df_for_model, fallbackRan, predictCalls>>

\* submitted, input_df = build_input_form(); if submitted: ...
\* choices: what the user may do with the form.
BuildInputForm(choices) ==
    /\ pc = "form"
    /\ \E w \in choices :
           LET r == build_input_form(w)
           IN  /\ formRendered' = TRUE
               /\ submitted' = r.submitted
               /\ input_df' = r.df
               /\ collected' = r.df
               /\ pc' = IF r.submitted THEN "encode" ELSE "done"
    /\ UNCHANGED <<files, cache, uploaded, model_path, model, attempts, loadError,
                   df_for_model, fallbackRan, predictCalls, display, returned>>

\* df_for_model = encode_if_needed(model, input_df)
EncodeIfNeeded ==
    /\ pc = "encode"
    /\ LET r == encode_if_needed(model, input_df)
       IN  /\ df_for_model' = r.ret
           /\ input_df' = r.arg
           /\ fallbackRan' = r.fallback
           /\ predictCalls' = predictCalls \o r.calls
    /\ pc' = "predict"
    /\ UNCHANGED <<files, cache, uploaded, model_path, model, attempts, loadError,
                   formRendered, submitted, collected, display, returned>>

\* Mutant of PredictAndShow: a failed prediction is shown as a yield of 0.
PredictAndShowDefault ==
    /\ pc = "predict"
    /\ LET pred == Predict(model, df_for_model)
       IN  /\ predictCalls' = Append(predictCalls, [arg |-> df_for_model, ok |-> pred.ok])
           /\ display' = Append(display,
                                Shown("success", <<"Predicted Yield">>,
                                      IF pred.ok THEN pred.value[1] ELSE 0))
    /\ pc' = "done"
    /\ UNCHANGED <<files, cache, uploaded, model_path, model, attempts, loadError,
                   formRendered, submitted, input_df, collected, df_for_model,
                   fallbackRan, returned>>

\* pred = model.predict(df_for_model); st.success(float(pred[0])), or the
\* except branch: st.exception(e) and st.error(...).  The yield is shown with
\* three decimals; the value is kept here.
PredictAndShow ==
    /\ pc = "predict"
    /\ LET pred == Predict(model, df_for_model)
       IN  /\ predictCalls' = Append(predictCalls, [arg |-> df_for_model, ok |-> pred.ok])
           /\ display' = IF pred.ok
                         THEN Append(display,
                                     Shown("success", <<"Predicted Yield">>, pred.value[1]))
                         ELSE display \o <<Shown("exception", <<pred.err>>, 0),
                                           Shown("error", <<"Prediction failed">>, 0)>>
    /\ pc' = "done"
    /\ UNCHANGED <<files, cache, uploaded, model_path, model, attempts, loadError,
                   formRendered, submitted, input_df, collected, df_for_model,
                   fallbackRan, returned>>

Next ==
    \/ \E u \in Uploads : ReceiveUpload(u)
    \/ CheckModelExists
    \/ LoadModel
    \/ BuildInputForm(SampleChoices)
    \/ EncodeIfNeeded
    \/ PredictAndShow

Spec == Init /\ [][Next]_vars

\* The form in full, on the model file next to app.py and no upload.
InitForm == Init /\ files[default_model_path] \in {"jbl_numeric"}

NextForm ==
    \/ ReceiveUpload(NoUpload)
    \/ CheckModelExists
    \/ LoadModel
    \/ BuildInputForm(AllChoices)
    \/ EncodeIfNeeded
    \/ PredictAndShow

SpecForm == InitForm /\ [][NextForm]_vars

-----------------------------------------------------------------------------
(* Properties *)

\* Two tables are the same: the same dtypes, and then the same cells.
SameFrame(a, b) == \A c \in Columns : a.dtype[c] = b.dtype[c] /\ a.col[c] = b.col[c]

HasShown(kind) == \E i \in DOMAIN display : display[i].kind = kind

\* C1: when the body of load_model runs, pickle is tried first and joblib only
\* if pickle raised; the handle of the first format that succeeds is returned;
\* if both raise, one RuntimeError is raised whose message holds both messages.
\* Either a handle or an error, never both, never neither.
C1_LoadTriesPickleThenJoblib ==
    attempts # << >> =>
        LET content == files[model_path]
            a == PickleLoad(content)
            b == JoblibLoad(content)
        IN  /\ attempts[1] = "pickle"
            /\ Len(attempts) <= 2
            /\ \A i \in DOMAIN attempts : i > 1 => attempts[i] = "joblib"
            /\ ("joblib" \in Range(attempts)) <=> ~a.ok
            /\ (model # NoModel) <=> (loadError = << >>)
            /\ a.ok => model = a.value
            /\ (~a.ok /\ b.ok) => model = b.value
            /\ (~a.ok /\ ~b.ok) =>
                   /\ model = NoModel
                   /\ a.err \in Range(loadError)
                   /\ b.err \in Range(loadError)
                   /\ display = <<Shown("exception", loadError, 0)>>

C1_Witness ==
    /\ attempts = <<"pickle", "joblib">>
    /\ loadError # << >>
    /\ uploaded = "corrupt"

\* C2: once load_model has returned a handle for a path, a later call with
\* that path returns the same handle and does not read the file; the two
\* handles predict the same for the same record.
C2_LoadIsCachedByPath ==
    [][(pc = "load" /\ returned[model_path] # NoModel) =>
           /\ model' = returned[model_path]
           /\ attempts' = << >>
           /\ pc' = "form"
           /\ \A w \in SampleChoices :
                  Predict(model', build_input_form(w).df)
                      = Predict(returned[model_path], build_input_form(w).df)]_vars

C2_Witness ==
    /\ pc = "form"
    /\ attempts = << >>
    /\ model = returned[model_path]
    /\ model # NoModel

\* C9: a request that carries an upload predicts with the model deserialized
\* from that upload.
C9_UploadedModelIsUsed ==
    (pc \in {"form", "encode", "predict", "done"} /\ uploaded # NoUpload
        /\ model # NoModel) =>
        model = load_model(uploaded).value

\* C7: after load_model raised, and when there is no file at the model path,
\* the request is over: no form, no call of predict, no yield shown; in the
\* second case load_model was not called.
C7_LoadFailureIsFatal ==
    LET raised == loadError # << >>
        missing == pc \notin {"start", "exists"} /\ files[model_path] = "absent"
    IN  (raised \/ missing) =>
            /\ pc = "done"
            /\ ~formRendered
            /\ predictCalls = << >>
            /\ ~HasShown("success")
            /\ Len(display) = 1
            /\ display[1].kind = (IF raised THEN "exception" ELSE "error")
            /\ missing => attempts = << >>

C7_Witness ==
    /\ pc = "done"
    /\ loadError # << >>
    /\ attempts = <<"pickle", "joblib">>

\* The other case of C7: no file at the model path.
C7_MissingFileReached ==
    /\ pc = "done"
    /\ files[model_path] = "absent"

NumericDtypes == {"int8", "int64", "float64"}

\* C3: when predict succeeds on the raw record, the fallback encoding does not
\* run, and the record given to the model for the reported prediction is the
\* raw record, unchanged.
C3_DirectPredictionKeepsRawRecord ==
    (Len(predictCalls) >= 1 /\ predictCalls[1].ok) =>
        /\ ~fallbackRan
        /\ SameFrame(predictCalls[1].arg, collected)
        /\ SameFrame(df_for_model, collected)
        /\ SameFrame(input_df, collected)
        /\ pc = "done" =>
               /\ Len(predictCalls) = 2
               /\ SameFrame(predictCalls[2].arg, collected)
               /\ predictCalls[2].ok
               /\ display = <<Shown("success", <<"Predicted Yield">>,
                                    YieldOf(model, collected, 1))>>

C3_Witness ==
    /\ pc = "done"
    /\ Len(predictCalls) = 2
    /\ predictCalls[1].ok
    /\ HasShown("success")

\* C4: when predict raises on the raw record, predict is tried on the encoded
\* record exactly once; if that raises too, the submission ends with an error
\* on the page, no yield, and no further call of predict.
C4_FallbackTriedOnce ==
    (Len(predictCalls) >= 1 /\ ~predictCalls[1].ok) =>
        /\ fallbackRan
        /\ SameFrame(predictCalls[1].arg, collected)
        /\ \A c \in Columns : df_for_model.dtype[c] \in NumericDtypes
        /\ Len(predictCalls) <= 2
        /\ Len(predictCalls) = 1 => pc = "predict"
        /\ Len(predictCalls) = 2 =>
               /\ pc = "done"
               /\ SameFrame(predictCalls[2].arg, df_for_model)
               /\ ~predictCalls[2].ok =>
                      /\ ~HasShown("success")
                      /\ HasShown("error")
                      /\ HasShown("exception")

C4_Witness ==
    /\ pc = "done"
    /\ Len(predictCalls) = 2
    /\ ~predictCalls[1].ok
    /\ ~predictCalls[2].ok
    /\ HasShown("error")

\* C5: with a model that raises on a record with a non-numeric field and
\* succeeds on an all-numeric one, every submission succeeds through the
\* fallback, and the yield shown is the prediction on the encoded record.
C5_NumericModelPredictsOnEncoded ==
    (pc = "done" /\ submitted /\ model.kind = "numeric") =>
        /\ fallbackRan
        /\ Len(predictCalls) = 2
        /\ ~predictCalls[1].ok
        /\ predictCalls[2].ok
        /\ \A c \in Columns : predictCalls[2].arg.dtype[c] \in NumericDtypes
        /\ ~SameFrame(predictCalls[2].arg, collected)
        /\ display = <<Shown("success", <<"Predicted Yield">>,
                             YieldOf(model, predictCalls[2].arg, 1))>>

C5_Witness ==
    /\ pc = "done"
    /\ submitted
    /\ model.kind = "numeric"
    /\ HasShown("success")

\* The cell of the one row of a table.
Cell(df, c) == df.col[c][1]

\* A table holds one record of the nine documented fields, each within its
\* enumeration or range.
IsFieldRecord(df) ==
    /\ DOMAIN df.col = Columns
    /\ Cardinality(DOMAIN df.col) = 9
    /\ \A c \in Columns : Len(df.col[c]) = 1
    /\ \A c \in CategoricalColumns : df.dtype[c] = "object"
    /\ Cell(df, "Region") \in {"North", "East", "South", "West"}
    /\ Cell(df, "Soil_Type") \in {"Clay", "Sandy", "Loam", "Silt", "Peaty", "Chalky"}
    /\ Cell(df, "Crop") \in {"Wheat", "Rice", "Maize", "Barley", "Soybean", "Cotton"}
    /\ Cell(df, "Weather_Condition") \in {"Sunny", "Rainy", "Cloudy"}
    /\ \A c \in FlagColumns : df.dtype[c] = "bool" /\ Cell(df, c) \in BOOLEAN
    /\ df.dtype["Days_to_Harvest"] = "int64"
    /\ Cell(df, "Days_to_Harvest") \in 30..400
    /\ Cell(df, "Rainfall_mm") \in 0..5000
    /\ Cell(df, "Temperature_Celsius") \in (-20)..60

\* C6: every record the form returns has the nine fields, the categorical
\* ones within their enumerations of 4, 6, 6 and 3 values, the flags boolean,
\* the numbers within their ranges; so does every raw record given to predict.
C6_FormRecordIsWellFormed ==
    /\ Cardinality(Range(RegionOptions)) = 4
    /\ Cardinality(Range(SoilTypeOptions)) = 6
    /\ Cardinality(Range(CropOptions)) = 6
    /\ Cardinality(Range(WeatherConditionOptions)) = 3
    /\ formRendered =>
           /\ IsFieldRecord(collected)
           /\ IsFieldRecord(input_df)
    /\ \A i \in DOMAIN predictCalls :
           predictCalls[i].arg.dtype["Region"] = "object" =>
               IsFieldRecord(predictCalls[i].arg)

\* A typed rainfall above the maximum was not taken, a boundary value was.
C6_Witness ==
    /\ pc = "done"
    /\ submitted
    /\ Len(predictCalls) = 2
    /\ Cell(collected, "Rainfall_mm") = RainfallDefault
    /\ Cell(collected, "Temperature_Celsius") = TemperatureMin
    /\ Cell(collected, "Days_to_Harvest") = DaysMax
    /\ Cell(collected, "Region") = "West"
    /\ ~Cell(collected, "Irrigation_Used")

WithCategory(df, c, v) == [df EXCEPT !.col[c] = <<v>>]

OptionsOf(c) ==
    CASE c = "Region" -> RegionOptions
      [] c = "Soil_Type" -> SoilTypeOptions
      [] c = "Crop" -> CropOptions
      [] OTHER -> WeatherConditionOptions

\* The record with every categorical field set to the first of its options.
WithFirstOptions(df) ==
    [df EXCEPT !.col["Region"] = <<RegionOptions[1]>>,
               !.col["Soil_Type"] = <<SoilTypeOptions[1]>>,
               !.col["Crop"] = <<CropOptions[1]>>,
               !.col["Weather_Condition"] = <<WeatherConditionOptions[1]>>]

\* C10: in the fallback encoding every categorical field is coded 0 whatever
\* value was selected, so a record that differs only in a categorical field
\* has the same encoding, and the same fallback prediction: the one of the
\* record with North, Clay, Wheat and Sunny in the place of the selection.
C10_CategoryCodesAreAllZero ==
    fallbackRan =>
        /\ \A c \in CategoricalColumns : Cell(df_for_model, c) = 0
        /\ pc = "predict" =>
               \A c \in CategoricalColumns : \A v \in Range(OptionsOf(c)) :
                   SameFrame(Encoded(WithCategory(collected, c, v)), df_for_model)
        /\ pc = "done" =>
               /\ SameFrame(Encoded(WithFirstOptions(collected)), df_for_model)
               /\ \A i \in DOMAIN display :
                      display[i].kind = "success" =>
                          display[i].value =
                              YieldOf(model, Encoded(WithFirstOptions(collected)), 1)

C10_Witness ==
    /\ fallbackRan
    /\ pc = "done"
    /\ HasShown("success")
    /\ Cell(collected, "Region") = "West"
    /\ Cell(collected, "Soil_Type") = "Silt"
    /\ Cell(collected, "Crop") = "Wheat"
    /\ Cell(collected, "Weather_Condition") = "Sunny"
    /\ \A c \in CategoricalColumns : Cell(df_for_model, c) = 0

====
